---------------------------- MODULE Spec2Model ----------------------------
(***************************************************************************)
(* A model of the task CLI of fast-api-test (src/task2/tasks): the version *)
(* parser and comparator and the push task (container.py), the terraform   *)
(* tasks plan / apply / destroy with their workspace validation, symlink   *)
(* bookkeeping and scoped directory change (terraform.py), the             *)
(* cloudformation tasks (cloudformation.py), and the chat / server tasks   *)
(* with their pre-hook and the build, format and check steps (run.py,      *)
(* container.py, format.py, check.py).                                     *)
(*                                                                         *)
(* A Python string is a sequence of one-character strings.  One run of the *)
(* model is one CLI invocation: Init draws the subcommand, its arguments   *)
(* and the environment it runs in; every action is one step of the task's  *)
(* code.  External effects (commands run, filesystem operations, prompts,  *)
(* registry queries, prints) are appended to the variable trace.           *)
(***************************************************************************)
EXTENDS Integers, Sequences, FiniteSets, TLC

VARIABLES
    task,                \* the subcommand invoked ("none" under SpecVersion)
    args,                \* its arguments
    pc,                  \* position in the task's code
    exc,                 \* the exception in flight, "none" when there is none
    trace,               \* external effects so far, in order
    cwd,                 \* os.getcwd()
    prev_dir,            \* change_directory's local prev_dir
    dirExists,           \* does workspace_dir exist on disk
    link,                \* what is at workspace_dir/settings.tf
    tfState,             \* terraform's workspaces: [existing, active]
    existing_workspaces, \* check_and_switch_workspace's local of that name
    registry,            \* ECR imageDetails: a sequence of imageTags lists
    version_to_push,     \* push's local
    last_version,        \* push's local
    answer,              \* what the operator typed at the prompt
    image_exists,        \* the context's image_exists: "unset", "true", "false"
    vin,                 \* SpecVersion: the input string
    vres                 \* SpecVersion: what validate_version / parse_tag gave

vars == <<task, args, pc, exc, trace, cwd, prev_dir, dirExists, link, tfState,
          existing_workspaces, registry, version_to_push, last_version, answer,
          image_exists, vin, vres>>

cliVars == <<task, args, pc, exc, trace, cwd, prev_dir, dirExists, link,
             tfState, existing_workspaces, registry, version_to_push,
             last_version, answer, image_exists>>

----------------------------------------------------------------------------
(* Bounds *)

\* longest input string of SpecVersion ("v01.1.1" has 7 characters)
MaxLen == 7
\* most images in the registry
MaxImages == 2
\* most tags on one image
MaxTags == 2
\* longest answer typed at the confirmation prompt
MaxAnswerLen == 3

----------------------------------------------------------------------------
(* Python strings *)

\* ASCII decimal digits
DecimalChars == {"0", "1", "2", "3", "4", "5", "6", "7", "8", "9"}

\* "sup2" is U+00B2 SUPERSCRIPT TWO: str.isdigit() is True for it ("digits
\* that need special handling, such as the compatibility superscript digits")
\* and int() rejects it (ValueError: invalid literal for int() with base 10).
SuperscriptChars == {"sup2"}

\* c.isdigit() for one character
CharIsDigit(c) == c \in DecimalChars \cup SuperscriptChars

\* v.isdigit(): non-empty and every character a digit
IsDigit(s) == s # <<>> /\ \A i \in 1..Len(s) : CharIsDigit(s[i])

DigitValue(c) ==
    CASE c = "0" -> 0 [] c = "1" -> 1 [] c = "2" -> 2 [] c = "3" -> 3
      [] c = "4" -> 4 [] c = "5" -> 5 [] c = "6" -> 6 [] c = "7" -> 7
      [] c = "8" -> 8 [] c = "9" -> 9

\* int(s) returns (does not raise ValueError), for the characters of the model
IntOk(s) == s # <<>> /\ \A i \in 1..Len(s) : s[i] \in DecimalChars

\* int(s), base 10
RECURSIVE IntOf(_)
IntOf(s) ==
    IF s = <<>> THEN 0
    ELSE 10 * IntOf(SubSeq(s, 1, Len(s) - 1)) + DigitValue(s[Len(s)])

\* s[1:]
Slice1(s) == IF s = <<>> THEN <<>> ELSE Tail(s)

\* s.split(".")
RECURSIVE Split(_)
Split(s) ==
    IF s = <<>> THEN << <<>> >>
    ELSE LET r == Split(Tail(s))
         IN  IF Head(s) = "." THEN << <<>> >> \o r
             ELSE << <<Head(s)>> \o Head(r) >> \o Tail(r)

\* every string over chars of length at most n
RECURSIVE StringsUpTo(_, _)
StringsUpTo(chars, n) ==
    IF n = 0 THEN { <<>> }
    ELSE LET shorter == StringsUpTo(chars, n - 1)
         IN  shorter \cup { Append(s, c) : s \in shorter, c \in chars }

VersionIdle == [stage |-> "input", valid |-> FALSE, ok |-> FALSE, v |-> <<>>]

\* s.startswith("v")
StartsWithV(s) == s # <<>> /\ Head(s) = "v"

----------------------------------------------------------------------------
(* container.py: versions *)

validate_version(version) ==
    IF ~StartsWithV(version) THEN FALSE
    ELSE LET version_str_tuple == Split(Slice1(version))
         IN  IF Len(version_str_tuple) # 3 THEN FALSE
             ELSE \A i \in 1..3 : IsDigit(version_str_tuple[i])

\* tuple(map(int, version_str_tuple)): ok is FALSE when an int() raises
parse_tag(tag) ==
    LET version_str_tuple == Split(Slice1(tag))
    IN  IF \A i \in 1..Len(version_str_tuple) : IntOk(version_str_tuple[i])
        THEN [ok |-> TRUE,
              v  |-> [i \in 1..Len(version_str_tuple) |->
                          IntOf(version_str_tuple[i])]]
        ELSE [ok |-> FALSE, v |-> <<>>]

\* Python's a < b and a <= b on tuples of integers
RECURSIVE TupleLt(_, _)
TupleLt(a, b) ==
    IF b = <<>> THEN FALSE
    ELSE IF a = <<>> THEN TRUE
    ELSE IF Head(a) # Head(b) THEN Head(a) < Head(b)
    ELSE TupleLt(Tail(a), Tail(b))

TupleLeq(a, b) == a = b \/ TupleLt(a, b)

----------------------------------------------------------------------------
(* Effects and outcomes *)

Ran(cmd, ok)  == [kind |-> "run",   what |-> cmd,  ok |-> ok]
FsOp(op)      == [kind |-> "fs",    what |-> <<op>>, ok |-> TRUE]
Printed(msg)  == [kind |-> "print", what |-> <<msg>>, ok |-> TRUE]
Prompted      == [kind |-> "input", what |-> <<"Do you want to proceed? (y/n): ">>,
                  ok |-> TRUE]
Queried(ok)   == [kind |-> "ecr",   what |-> <<"describe_images">>, ok |-> ok]

\* the process exit code: 0 after a normal return, non-zero after sys.exit(1),
\* SystemExit(message), an uncaught exception or a failed c.run
ExitCode == IF exc = "none" THEN 0 ELSE 1

StartDir == <<"cwd">>

----------------------------------------------------------------------------
(* terraform.py *)

\* Workspace.values()
WorkspaceValues == {"dev", "staging", "production"}

\* is_valid_workspace returns (does not sys.exit)
is_valid_workspace(workspace) == workspace \in WorkspaceValues

\* INFRA_DIR / "environment" / workspace, as pathlib joins it
WorkspaceDir(workspace) ==
    IF workspace = "." THEN <<"infra", "terraform", "environment">>
    ELSE <<"infra", "terraform", "environment", workspace>>

\* os.chdir(prev_dir) in change_directory's finally clause
RestoredDirNoFinally == IF exc = "none" THEN prev_dir ELSE cwd
RestoredDir == prev_dir

\* `terraform workspace list`: "default" first, the others sorted, the active
\* one marked "* ", the others indented by two blanks, a blank line last.
\* A line is a sequence of tokens: "*", " ", or a workspace name.
TfOrder == <<"default", "dev", "production", "staging">>

TfLine(name, active) ==
    IF name = active THEN <<"*", " ", name>> ELSE <<" ", " ", name>>

RECURSIVE TfLines(_, _)
TfLines(st, i) ==
    IF i > Len(TfOrder) THEN << <<>> >>
    ELSE IF TfOrder[i] \in st.existing
         THEN <<TfLine(TfOrder[i], st.active)>> \o TfLines(st, i + 1)
         ELSE TfLines(st, i + 1)

\* result.stdout.splitlines()
TfStdoutLines(st) == TfLines(st, 1)

\* what terraform may hold: "default" always exists, one workspace is active
TfStates ==
    { [existing |-> e \cup {"default"}, active |-> a] :
        e \in SUBSET WorkspaceValues, a \in WorkspaceValues \cup {"default"} }

RealTfStates == { st \in TfStates : st.active \in st.existing }

\* w.strip(chars)
RECURSIVE LStrip(_, _)
LStrip(w, chars) ==
    IF w # <<>> /\ Head(w) \in chars THEN LStrip(Tail(w), chars) ELSE w

RECURSIVE RStrip(_, _)
RStrip(w, chars) ==
    IF w # <<>> /\ w[Len(w)] \in chars
    THEN RStrip(SubSeq(w, 1, Len(w) - 1), chars) ELSE w

Strip(w, chars) == RStrip(LStrip(w, chars), chars)

Whitespace == {" ", "tab", "nl"}

\* w.strip("* ").strip()
StripMarker(w) == Strip(Strip(w, {"*", " "}), Whitespace)

\* the workspace argument as a token sequence
Tokens(str) == IF str = "" THEN <<>> ELSE <<str>>

\* workspace in existing_workspaces
WorkspaceListedIfAny(workspace, existing) == existing # <<>>
WorkspaceListed(workspace, existing) ==
    \E i \in 1..Len(existing) : existing[i] = Tokens(workspace)

\* the init command plan builds
PlanInitCommand ==
    <<"terraform", "init">>
    \o (IF args.reconfigure THEN <<"-reconfigure">> ELSE <<"-migrate-state">>)
    \o (IF args.upgrade THEN <<"-upgrade">> ELSE <<>>)

VarFiles == <<"-var-file", args.workspace, "-var-file-secrets", args.workspace>>

AutoApprove == IF args.auto_approve THEN <<"-auto-approve">> ELSE <<>>

\* run.py: the tasks declared with pre=[docker_image_exists]
RunTasks == {"chat", "server"}

\* @task(pre=[...]): the tasks the dispatcher runs before the task's body
PreHooksNone(t) == <<>>
PreHooks(t) == IF t \in RunTasks THEN <<"docker_image_exists">> ELSE <<>>

\* the no_format and no_check a step runs under: chat and server take them
\* from the command line; build takes them from its caller, and chat and
\* server call build(c, remote=...) without them, so build's defaults apply
NoFormat(scope) ==
    IF scope = "b" /\ task \in RunTasks THEN FALSE ELSE args.no_format

NoCheck(scope) ==
    IF scope = "b" /\ task \in RunTasks THEN FALSE ELSE args.no_check

\* what follows the check step of chat / server ("h") and of build ("b")
AfterCheck(scope) == IF scope = "h" THEN "h_decide" ELSE "b_docker"

\* if with_check: check(c)
AfterFormat(scope) ==
    IF ~NoCheck(scope) THEN (IF scope = "h" THEN "h_mypy" ELSE "b_mypy")
    ELSE AfterCheck(scope)

\* if with_format: format_code(c)
Entry(scope) ==
    IF ~NoFormat(scope) THEN (IF scope = "h" THEN "h_isort" ELSE "b_isort")
    ELSE AfterFormat(scope)

\* where each task's code starts, and where it goes after ensure_symlink,
\* after check_and_switch_workspace and after each with-block
StartPc(t) ==
    CASE t \in {"plan", "apply"} -> "validate"
      [] t = "destroy" -> "symlink"
      [] t = "push" -> "push_assert"
      [] t \in {"create_chat_table", "update_chat_table"} -> "cf_assert"
      [] t \in RunTasks ->
            IF PreHooks(t) # <<>> THEN "pre_images" ELSE Entry("h")
      [] t = "build" -> Entry("b")

AfterSymlink(t) ==
    CASE t = "plan" -> "plan_init_cd"
      [] t = "apply" -> "csw_cd"
      [] t = "destroy" -> "destroy_cd"

CdEnterPcs == {"plan_init_cd", "csw_cd", "plan_cd", "apply_cd", "destroy_cd"}

BodyOf(p) ==
    CASE p = "plan_init_cd" -> "plan_init"
      [] p = "csw_cd" -> "csw_list"
      [] p = "plan_cd" -> "plan_run"
      [] p = "apply_cd" -> "apply_run"
      [] p = "destroy_cd" -> "destroy_init"

CdExitPcs == {"plan_init_exit", "csw_exit", "plan_exit", "apply_exit",
              "destroy_exit"}

AfterBlock(p) ==
    CASE p = "plan_init_exit" -> "csw_cd"
      [] p = "csw_exit" -> (IF task = "plan" THEN "plan_cd" ELSE "apply_cd")
      [] p \in {"plan_exit", "apply_exit", "destroy_exit"} -> "done"

\* the positions inside a with change_directory(...) block
InBlockPcs == {"plan_init", "csw_list", "csw_check", "plan_run", "apply_run",
               "destroy_init", "destroy_run"} \cup CdExitPcs

\* c.run(cmd) inside a with-block: a failed command raises UnexpectedExit,
\* which leaves the block through change_directory's finally
RunInBlock(cmd, ok, next, exitPc) ==
    /\ trace' = Append(trace, Ran(cmd, ok))
    /\ IF ok THEN /\ pc' = next
                  /\ exc' = exc
       ELSE /\ pc' = exitPc
            /\ exc' = "UnexpectedExit"

\* plan / apply: is_valid_workspace(workspace)
IsValidWorkspace ==
    /\ pc = "validate"
    /\ IF is_valid_workspace(args.workspace)
       THEN /\ pc' = "symlink"
            /\ UNCHANGED <<exc, trace>>
       ELSE /\ trace' = trace \o <<Printed("Invalid workspace"),
                                   Printed("Valid workspaces are")>>
            /\ exc' = "SystemExit"
            /\ pc' = "done"
    /\ UNCHANGED <<task, args, cwd, prev_dir, dirExists, link, tfState,
                   existing_workspaces, registry, version_to_push,
                   last_version, answer, vin, vres,
                   image_exists>>

\* ensure_symlink(global_config_path, symlink_path)
EnsureSymlink ==
    /\ pc = "symlink"
    /\ IF dirExists
       THEN /\ trace' = trace
                        \o (IF link # "absent" THEN <<FsOp("unlink")>> ELSE <<>>)
                        \o <<FsOp("symlink_to")>>
            /\ link' = "linked"
            /\ pc' = AfterSymlink(task)
            /\ exc' = exc
       ELSE \* symlink_to in a directory that does not exist
            /\ exc' = "FileNotFoundError"
            /\ pc' = "done"
            /\ UNCHANGED <<trace, link>>
    /\ UNCHANGED <<task, args, cwd, prev_dir, dirExists, tfState,
                   existing_workspaces, registry, version_to_push,
                   last_version, answer, vin, vres,
                   image_exists>>

\* change_directory: prev_dir = os.getcwd(); os.chdir(directory)
ChangeDirectoryEnter ==
    /\ pc \in CdEnterPcs
    /\ prev_dir' = cwd
    /\ cwd' = WorkspaceDir(args.workspace)
    /\ pc' = BodyOf(pc)
    /\ UNCHANGED <<task, args, exc, trace, dirExists, link, tfState,
                   existing_workspaces, registry, version_to_push,
                   last_version, answer, vin, vres,
                   image_exists>>

\* change_directory: finally: os.chdir(prev_dir), on every way out of the block
ChangeDirectoryExit ==
    /\ pc \in CdExitPcs
    /\ cwd' = RestoredDir
    /\ pc' = IF exc = "none" THEN AfterBlock(pc) ELSE "done"
    /\ UNCHANGED <<task, args, exc, trace, prev_dir, dirExists, link, tfState,
                   existing_workspaces, registry, version_to_push,
                   last_version, answer, vin, vres,
                   image_exists>>

\* plan: c.run(init_command)
PlanInit ==
    /\ pc = "plan_init"
    /\ \E ok \in BOOLEAN :
          RunInBlock(PlanInitCommand, ok, "plan_init_exit", "plan_init_exit")
    /\ UNCHANGED <<task, args, cwd, prev_dir, dirExists, link, tfState,
                   existing_workspaces, registry, version_to_push,
                   last_version, answer, vin, vres,
                   image_exists>>

\* check_and_switch_workspace: terraform workspace list, splitlines, strip
WorkspaceList ==
    /\ pc = "csw_list"
    /\ \E st \in RealTfStates, ok \in BOOLEAN :
          /\ RunInBlock(<<"terraform", "workspace", "list">>, ok,
                        "csw_check", "csw_exit")
          /\ tfState' = st
          /\ existing_workspaces' =
                IF ok THEN [i \in 1..Len(TfStdoutLines(st)) |->
                               StripMarker(TfStdoutLines(st)[i])]
                ELSE existing_workspaces
    /\ UNCHANGED <<task, args, cwd, prev_dir, dirExists, link, registry,
                   version_to_push, last_version, answer, vin, vres,
                   image_exists>>

\* check_and_switch_workspace: select the workspace, or give up
WorkspaceSelect ==
    /\ pc = "csw_check"
    /\ IF WorkspaceListed(args.workspace, existing_workspaces)
       THEN \E ok \in BOOLEAN :
               RunInBlock(<<"terraform", "workspace", "select", args.workspace>>,
                          ok, "csw_exit", "csw_exit")
       ELSE /\ trace' = trace \o <<Printed("does not exist"),
                                   Printed("Existing workspaces are"),
                                   Printed("create it using terraform workspace new")>>
            /\ exc' = "SystemExit"
            /\ pc' = "csw_exit"
    /\ UNCHANGED <<task, args, cwd, prev_dir, dirExists, link, tfState,
                   existing_workspaces, registry, version_to_push,
                   last_version, answer, vin, vres,
                   image_exists>>

\* plan: c.run("terraform plan ...")
PlanRun ==
    /\ pc = "plan_run"
    /\ \E ok \in BOOLEAN :
          RunInBlock(<<"terraform", "plan">> \o VarFiles, ok,
                     "plan_exit", "plan_exit")
    /\ UNCHANGED <<task, args, cwd, prev_dir, dirExists, link, tfState,
                   existing_workspaces, registry, version_to_push,
                   last_version, answer, vin, vres,
                   image_exists>>

\* apply: c.run("terraform apply ...")
ApplyRun ==
    /\ pc = "apply_run"
    /\ \E ok \in BOOLEAN :
          RunInBlock(<<"terraform", "apply">> \o VarFiles \o AutoApprove, ok,
                     "apply_exit", "apply_exit")
    /\ UNCHANGED <<task, args, cwd, prev_dir, dirExists, link, tfState,
                   existing_workspaces, registry, version_to_push,
                   last_version, answer, vin, vres,
                   image_exists>>

\* destroy: c.run(init_command)
DestroyInit ==
    /\ pc = "destroy_init"
    /\ \E ok \in BOOLEAN :
          RunInBlock(<<"terraform", "init">>, ok, "destroy_run", "destroy_exit")
    /\ UNCHANGED <<task, args, cwd, prev_dir, dirExists, link, tfState,
                   existing_workspaces, registry, version_to_push,
                   last_version, answer, vin, vres,
                   image_exists>>

\* destroy: c.run("terraform destroy ...")
DestroyRun ==
    /\ pc = "destroy_run"
    /\ \E ok \in BOOLEAN :
          RunInBlock(<<"terraform", "destroy">> \o VarFiles \o AutoApprove, ok,
                     "destroy_exit", "destroy_exit")
    /\ UNCHANGED <<task, args, cwd, prev_dir, dirExists, link, tfState,
                   existing_workspaces, registry, version_to_push,
                   last_version, answer, vin, vres,
                   image_exists>>

----------------------------------------------------------------------------
(* container.py: push *)

\* version_list.sort(), by insertion
RECURSIVE Insert(_, _)
Insert(x, s) ==
    IF s = <<>> THEN <<x>>
    ELSE IF TupleLt(x, Head(s)) THEN <<x>> \o s
    ELSE <<Head(s)>> \o Insert(x, Tail(s))

RECURSIVE Sort(_)
Sort(s) == IF s = <<>> THEN <<>> ELSE Insert(Head(s), Sort(Tail(s)))

NoVersion == [some |-> FALSE, v |-> <<>>]

\* [image["imageTags"][0] for image in image_list if image.get("imageTags")]
FirstTags(image_list) ==
    LET HasTags(image) == image # <<>>
        tagged == SelectSeq(image_list, HasTags)
    IN  [i \in 1..Len(tagged) |-> tagged[i][1]]

\* get_last_version on the describe_images response: raised names the
\* exception it ends with, "none" when it returns
get_last_version(image_list) ==
    IF image_list = <<>> THEN [raised |-> "none", last |-> NoVersion]
    ELSE LET tag_list == FirstTags(image_list)
             parsed == [i \in 1..Len(tag_list) |-> parse_tag(tag_list[i])]
         IN  IF \E i \in 1..Len(parsed) : ~parsed[i].ok
             THEN [raised |-> "ValueError", last |-> NoVersion]
             ELSE LET version_list == Sort([i \in 1..Len(parsed) |-> parsed[i].v])
                  IN  IF version_list = <<>>
                      THEN \* version_list[-1] of an empty list
                           [raised |-> "IndexError", last |-> NoVersion]
                      ELSE [raised |-> "none",
                            last |-> [some |-> TRUE,
                                      v |-> version_list[Len(version_list)]]]

\* push returns early: last_version is not None and version_to_push <= it
PushRejected(to_push, last) == last.some /\ TupleLeq(to_push, last.v)

\* c.run(cmd) outside any with-block: a failed command ends the task
RunTop(cmd, ok, next) ==
    /\ trace' = Append(trace, Ran(cmd, ok))
    /\ IF ok THEN /\ pc' = next
                  /\ exc' = exc
       ELSE /\ pc' = "done"
            /\ exc' = "UnexpectedExit"

\* push: is the assert on validate_version(version) passed
PushAssertOff(version) == TRUE
PushAssertPasses(version) == validate_version(version)

\* assert validate_version(version), ...
PushAssert ==
    /\ pc = "push_assert"
    /\ IF PushAssertPasses(args.version)
       THEN /\ pc' = "push_parse"
            /\ exc' = exc
       ELSE /\ pc' = "done"
            /\ exc' = "AssertionError"
    /\ UNCHANGED <<task, args, trace, cwd, prev_dir, dirExists, link, tfState,
                   existing_workspaces, registry, version_to_push,
                   last_version, answer, vin, vres,
                   image_exists>>

\* version_to_push = parse_tag(version)
PushParseTag ==
    /\ pc = "push_parse"
    /\ LET r == parse_tag(args.version)
       IN  IF r.ok
           THEN /\ version_to_push' = r.v
                /\ pc' = "push_last"
                /\ exc' = exc
           ELSE /\ version_to_push' = version_to_push
                /\ pc' = "done"
                /\ exc' = "ValueError"
    /\ UNCHANGED <<task, args, trace, cwd, prev_dir, dirExists, link, tfState,
                   existing_workspaces, registry, last_version, answer,
                   vin, vres,
                   image_exists>>

\* last_version = get_last_version(); the ECR call itself may fail
GetLastVersion ==
    /\ pc = "push_last"
    /\ \E ok \in BOOLEAN :
          /\ trace' = Append(trace, Queried(ok))
          /\ IF ~ok
             THEN /\ exc' = "ClientError"
                  /\ pc' = "done"
                  /\ last_version' = last_version
             ELSE LET r == get_last_version(registry)
                  IN  /\ exc' = r.raised
                      /\ pc' = IF r.raised = "none" THEN "push_compare" ELSE "done"
                      /\ last_version' = r.last
    /\ UNCHANGED <<task, args, cwd, prev_dir, dirExists, link, tfState,
                   existing_workspaces, registry, version_to_push, answer,
                   vin, vres,
                   image_exists>>

\* if last_version is not None: if version_to_push <= last_version: ... return
PushCompare ==
    /\ pc = "push_compare"
    /\ IF PushRejected(version_to_push, last_version)
       THEN /\ trace' = Append(trace, Printed("Error: must be greater than the last one"))
            /\ pc' = "done"
       ELSE /\ trace' = trace
            /\ pc' = "push_login"
    /\ UNCHANGED <<task, args, exc, cwd, prev_dir, dirExists, link, tfState,
                   existing_workspaces, registry, version_to_push,
                   last_version, answer, vin, vres,
                   image_exists>>

\* c.run("aws ecr get-login-password ... | docker login ...")
PushLogin ==
    /\ pc = "push_login"
    /\ \E ok \in BOOLEAN : RunTop(<<"docker", "login">>, ok, "push_tag")
    /\ UNCHANGED <<task, args, cwd, prev_dir, dirExists, link, tfState,
                   existing_workspaces, registry, version_to_push,
                   last_version, answer, vin, vres,
                   image_exists>>

\* c.run("docker tag ...")
PushTag ==
    /\ pc = "push_tag"
    /\ \E ok \in BOOLEAN : RunTop(<<"docker", "tag">>, ok, "push_push")
    /\ UNCHANGED <<task, args, cwd, prev_dir, dirExists, link, tfState,
                   existing_workspaces, registry, version_to_push,
                   last_version, answer, vin, vres,
                   image_exists>>

\* c.run("docker push ...")
PushPush ==
    /\ pc = "push_push"
    /\ \E ok \in BOOLEAN : RunTop(<<"docker", "push">>, ok, "done")
    /\ UNCHANGED <<task, args, cwd, prev_dir, dirExists, link, tfState,
                   existing_workspaces, registry, version_to_push,
                   last_version, answer, vin, vres,
                   image_exists>>

----------------------------------------------------------------------------
(* cloudformation.py *)

\* the list both tasks assert env against
EnvValues == {"dev", "staging", "production"}

\* c.lower() for one character, and s.lower()
LowerChar(c) == IF c = "Y" THEN "y" ELSE IF c = "N" THEN "n" ELSE c
Lower(s) == [i \in 1..Len(s) |-> LowerChar(s[i])]

\* input(...).lower().strip() == "y"
ProceedIfStartsWithY(typed) ==
    LET a == Strip(Lower(typed), Whitespace) IN a # <<>> /\ Head(a) = "y"
Proceed(typed) == Strip(Lower(typed), Whitespace) = <<"y">>

StackCommand ==
    <<"aws", "cloudformation",
      IF task = "create_chat_table" THEN "create-stack" ELSE "update-stack",
      args.env>>

ProtectCommand ==
    <<"aws", "cloudformation", "update-termination-protection", args.env>>

\* what the operator may type
AnswerChars == {"y", "Y", "n", " "}

\* assert env in ["dev", "staging", "production"], ...
CfAssert ==
    /\ pc = "cf_assert"
    /\ IF args.env \in EnvValues
       THEN /\ pc' = "cf_prompt"
            /\ exc' = exc
       ELSE /\ pc' = "done"
            /\ exc' = "AssertionError"
    /\ UNCHANGED <<task, args, trace, cwd, prev_dir, dirExists, link, tfState,
                   existing_workspaces, registry, version_to_push,
                   last_version, answer, vin, vres,
                   image_exists>>

\* the two prints, proceed = input(...)..., and the early return
CfPrompt ==
    /\ pc = "cf_prompt"
    /\ \E typed \in StringsUpTo(AnswerChars, MaxAnswerLen) :
          /\ answer' = typed
          /\ IF Proceed(typed)
             THEN /\ trace' = trace \o <<Printed("stack"), Printed("Using template"),
                                         Prompted>>
                  /\ pc' = "cf_stack"
             ELSE /\ trace' = trace \o <<Printed("stack"), Printed("Using template"),
                                         Prompted, Printed("Aborting...")>>
                  /\ pc' = "done"
    /\ UNCHANGED <<task, args, exc, cwd, prev_dir, dirExists, link, tfState,
                   existing_workspaces, registry, version_to_push,
                   last_version, vin, vres,
                   image_exists>>

\* try: subprocess.run(command, check=True, ...) except CalledProcessError:
\* print the error; the task goes on
CfStack ==
    /\ pc = "cf_stack"
    /\ \E ok \in BOOLEAN :
          trace' = trace \o <<Ran(StackCommand, ok),
                              Printed(IF ok THEN "successfully" ELSE "Error")>>
    /\ pc' = IF task = "create_chat_table" THEN "cf_protect" ELSE "done"
    /\ UNCHANGED <<task, args, exc, cwd, prev_dir, dirExists, link, tfState,
                   existing_workspaces, registry, version_to_push,
                   last_version, answer, vin, vres,
                   image_exists>>

\* create_chat_table: the termination-protection command, wrapped the same way
CfProtect ==
    /\ pc = "cf_protect"
    /\ \E ok \in BOOLEAN :
          trace' = trace \o <<Ran(ProtectCommand, ok),
                              Printed(IF ok THEN "enabled" ELSE "Error")>>
    /\ pc' = "done"
    /\ UNCHANGED <<task, args, exc, cwd, prev_dir, dirExists, link, tfState,
                   existing_workspaces, registry, version_to_push,
                   last_version, answer, vin, vres,
                   image_exists>>

----------------------------------------------------------------------------
(* run.py, and build of container.py, format.py, check.py *)

\* a read or a write of the context's image_exists, and the function doing it
CtxOp(op, who) ==
    [kind |-> "ctx", what |-> <<op, "image_exists", who>>, ok |-> TRUE]

\* what `docker images -q <name>` may print: nothing, or the image id and a
\* line end
DockerImagesStdouts == { <<>>, <<"3f1a9c0b7d2e", "nl">> }

\* bool(result.stdout.strip())
ImageFound(stdout) == Strip(stdout, Whitespace) # <<>>

\* not c.image_exists or force_build
NeedsBuildAlways == TRUE
NeedsBuild == image_exists = "false" \/ args.force_build

\* build's remote and no_cache: its own arguments, or the ones chat
\* (remote=False) and server (remote=not local, no_cache=no_cache) pass
BuildRemote ==
    CASE task = "build" -> args.remote
      [] task = "chat" -> FALSE
      [] task = "server" -> ~args.local

BuildNoCache == IF task = "chat" THEN FALSE ELSE args.no_cache

DockerBuildCommand ==
    <<"docker", "build">>
    \o (IF BuildRemote THEN <<"--platform", "linux/amd64">> ELSE <<>>)
    \o (IF task = "build" /\ args.debug THEN <<"--progress=plain">> ELSE <<>>)
    \o (IF BuildNoCache THEN <<"--no-cache">> ELSE <<>>)

DockerRunCommand ==
    <<"docker", "run">>
    \o (IF task = "chat" THEN <<"-e", "USE_PASSWORD_AUTH=true", "-v", "chainlit">>
        ELSE IF args.local THEN <<"-v", "uvicorn">> ELSE <<>>)

ScopeOf(p) == IF p \in {"h_isort", "h_black", "h_mypy", "h_ruff"} THEN "h" ELSE "b"

\* the pre-hook docker_image_exists: the command is run with warn=True, so a
\* failure does not raise; it prints nothing then
DockerImageExists ==
    /\ pc = "pre_images"
    /\ \E ok \in BOOLEAN, out \in DockerImagesStdouts :
          LET stdout == IF ok THEN out ELSE <<>>
          IN  /\ image_exists' = IF ImageFound(stdout) THEN "true" ELSE "false"
              /\ trace' = trace \o
                    <<Ran(<<"docker", "images", "-q">>, ok),
                      CtxOp("write", "docker_image_exists"),
                      CtxOp("read", "docker_image_exists"),
                      Printed(IF ImageFound(stdout) THEN "Found local image"
                              ELSE "not found locally")>>
    /\ pc' = Entry("h")
    /\ UNCHANGED <<task, args, exc, cwd, prev_dir, dirExists, link, tfState,
                   existing_workspaces, registry, version_to_push,
                   last_version, answer, vin, vres>>

\* format_code: c.run("isort .")
FormatIsort ==
    /\ pc \in {"h_isort", "b_isort"}
    /\ \E ok \in BOOLEAN :
          RunTop(<<"isort", ".">>, ok,
                 IF ScopeOf(pc) = "h" THEN "h_black" ELSE "b_black")
    /\ UNCHANGED <<task, args, cwd, prev_dir, dirExists, link, tfState,
                   existing_workspaces, registry, version_to_push,
                   last_version, answer, image_exists, vin, vres>>

\* format_code: c.run("black --config=./pyproject.toml .")
FormatBlack ==
    /\ pc \in {"h_black", "b_black"}
    /\ \E ok \in BOOLEAN :
          RunTop(<<"black", "--config=./pyproject.toml", ".">>, ok,
                 AfterFormat(ScopeOf(pc)))
    /\ UNCHANGED <<task, args, cwd, prev_dir, dirExists, link, tfState,
                   existing_workspaces, registry, version_to_push,
                   last_version, answer, image_exists, vin, vres>>

\* check: c.run("mypy ...")
CheckMypy ==
    /\ pc \in {"h_mypy", "b_mypy"}
    /\ \E ok \in BOOLEAN :
          RunTop(<<"mypy", ".">>, ok,
                 IF ScopeOf(pc) = "h" THEN "h_ruff" ELSE "b_ruff")
    /\ UNCHANGED <<task, args, cwd, prev_dir, dirExists, link, tfState,
                   existing_workspaces, registry, version_to_push,
                   last_version, answer, image_exists, vin, vres>>

\* check: c.run("ruff check ...")
CheckRuff ==
    /\ pc \in {"h_ruff", "b_ruff"}
    /\ \E ok \in BOOLEAN :
          RunTop(<<"ruff", "check", ".">>, ok, AfterCheck(ScopeOf(pc)))
    /\ UNCHANGED <<task, args, cwd, prev_dir, dirExists, link, tfState,
                   existing_workspaces, registry, version_to_push,
                   last_version, answer, image_exists, vin, vres>>

\* chat / server: if not c.image_exists or force_build: build(c, ...)
BuildDecision ==
    /\ pc = "h_decide"
    /\ trace' = Append(trace, CtxOp("read", task))
    /\ IF image_exists = "unset"
       THEN \* the context holds no image_exists
            /\ exc' = "AttributeError"
            /\ pc' = "done"
       ELSE /\ exc' = exc
            /\ pc' = IF NeedsBuild THEN Entry("b") ELSE "h_run"
    /\ UNCHANGED <<task, args, cwd, prev_dir, dirExists, link, tfState,
                   existing_workspaces, registry, version_to_push,
                   last_version, answer, image_exists, vin, vres>>

\* build: c.run("docker build ...")
DockerBuild ==
    /\ pc = "b_docker"
    /\ \E ok \in BOOLEAN :
          RunTop(DockerBuildCommand, ok,
                 IF task = "build" THEN "done" ELSE "h_run")
    /\ UNCHANGED <<task, args, cwd, prev_dir, dirExists, link, tfState,
                   existing_workspaces, registry, version_to_push,
                   last_version, answer, image_exists, vin, vres>>

\* chat / server: c.run("docker run ...")
DockerRun ==
    /\ pc = "h_run"
    /\ \E ok \in BOOLEAN : RunTop(DockerRunCommand, ok, "done")
    /\ UNCHANGED <<task, args, cwd, prev_dir, dirExists, link, tfState,
                   existing_workspaces, registry, version_to_push,
                   last_version, answer, image_exists, vin, vres>>

----------------------------------------------------------------------------
(* One invocation of the CLI *)

TfTasks == {"plan", "apply", "destroy"}
CfTasks == {"create_chat_table", "update_chat_table"}
Tasks == TfTasks \cup {"push"} \cup CfTasks \cup RunTasks \cup {"build"}

\* --workspace values tried: the three valid ones, a name outside the set, and
\* ".", which names the environment directory itself
WorkspaceInputs == WorkspaceValues \cup {"prod", "."}

EnvInputs == EnvValues \cup {"prod", "DEV"}

Ver(a, b, c) == <<"v">> \o a \o <<".">> \o b \o <<".">> \o c

\* tags already published
Tags == { Ver(<<"1">>, <<"0">>, <<"0">>),
          Ver(<<"1">>, <<"1">>, <<"0">>),
          Ver(<<"2">>, <<"0">>, <<"0">>) }

\* --version values tried
VersionInputs ==
    Tags \cup { Ver(<<"0">>, <<"9">>, <<"9">>),
                Ver(<<"1">>, <<"0">>, <<"1">>),
                Ver(<<"1", "0">>, <<"0">>, <<"0">>),
                Ver(<<"0", "1">>, <<"1">>, <<"0">>),
                Ver(<<"sup2">>, <<"0">>, <<"0">>),
                <<"1", ".", "0", ".", "0">>,
                <<"v", "1", ".", "0">>,
                <<"v", "1", ".", ".", "0">>,
                <<"V", "1", ".", "0", ".", "0">> }

\* an image's imageTags: no tag, or distinct tags in the order ECR returns them
RECURSIVE TagLists(_)
TagLists(n) ==
    IF n = 0 THEN { <<>> }
    ELSE LET shorter == TagLists(n - 1)
         IN  shorter \cup { Append(l, tg) : l \in shorter, tg \in Tags }

NoRepeat(l) == \A i, j \in 1..Len(l) : i # j => l[i] # l[j]

Images == { l \in TagLists(MaxTags) : NoRepeat(l) }

RECURSIVE ImageLists(_)
ImageLists(n) ==
    IF n = 0 THEN { <<>> }
    ELSE LET shorter == ImageLists(n - 1)
         IN  shorter \cup { Append(r, im) : r \in shorter, im \in Images }

RECURSIVE Flatten(_)
Flatten(r) == IF r = <<>> THEN <<>> ELSE Head(r) \o Flatten(Tail(r))

\* a tag names one image of a repository
Registries == { r \in ImageLists(MaxImages) : NoRepeat(Flatten(r)) }

NoArgs == [workspace |-> "", reconfigure |-> FALSE, upgrade |-> FALSE,
           auto_approve |-> FALSE, version |-> <<>>, env |-> "",
           no_format |-> FALSE, no_check |-> FALSE, force_build |-> FALSE,
           local |-> TRUE, no_cache |-> FALSE, remote |-> TRUE,
           debug |-> FALSE]

ArgsOf(t) ==
    CASE t = "plan" ->
            { [NoArgs EXCEPT !.workspace = w, !.reconfigure = r, !.upgrade = u] :
                w \in WorkspaceInputs, r \in BOOLEAN, u \in BOOLEAN }
      [] t \in {"apply", "destroy"} ->
            { [NoArgs EXCEPT !.workspace = w, !.auto_approve = a] :
                w \in WorkspaceInputs, a \in BOOLEAN }
      [] t = "push" ->
            { [NoArgs EXCEPT !.version = v] : v \in VersionInputs }
      [] t \in CfTasks ->
            { [NoArgs EXCEPT !.env = e] : e \in EnvInputs }
      [] t = "chat" ->
            { [NoArgs EXCEPT !.no_format = f, !.no_check = k,
                             !.force_build = b] :
                f \in BOOLEAN, k \in BOOLEAN, b \in BOOLEAN }
      [] t = "server" ->
            { [NoArgs EXCEPT !.no_format = f, !.no_check = k,
                             !.force_build = b, !.local = l, !.no_cache = n] :
                f \in BOOLEAN, k \in BOOLEAN, b \in BOOLEAN,
                l \in BOOLEAN, n \in BOOLEAN }
      [] t = "build" ->
            { [NoArgs EXCEPT !.no_format = f, !.no_check = k, !.remote = r,
                             !.no_cache = n, !.debug = d] :
                f \in BOOLEAN, k \in BOOLEAN, r \in BOOLEAN,
                n \in BOOLEAN, d \in BOOLEAN }

Init ==
    /\ task \in Tasks
    /\ args \in ArgsOf(task)
    /\ pc = StartPc(task)
    /\ image_exists = "unset"
    /\ exc = "none"
    /\ trace = <<>>
    /\ cwd = StartDir
    /\ prev_dir = StartDir
    /\ dirExists \in (IF task \in TfTasks THEN BOOLEAN ELSE {FALSE})
    /\ link \in (IF dirExists THEN {"absent", "present"} ELSE {"absent"})
    /\ tfState = [existing |-> {"default"}, active |-> "default"]
    /\ existing_workspaces = <<>>
    /\ registry \in (IF task = "push" THEN Registries ELSE { <<>> })
    /\ version_to_push = <<>>
    /\ last_version = NoVersion
    /\ answer = <<>>
    /\ vin = <<>>
    /\ vres = VersionIdle

Next ==
    \/ IsValidWorkspace
    \/ EnsureSymlink
    \/ ChangeDirectoryEnter
    \/ ChangeDirectoryExit
    \/ PlanInit
    \/ WorkspaceList
    \/ WorkspaceSelect
    \/ PlanRun
    \/ ApplyRun
    \/ DestroyInit
    \/ DestroyRun
    \/ PushAssert
    \/ PushParseTag
    \/ GetLastVersion
    \/ PushCompare
    \/ PushLogin
    \/ PushTag
    \/ PushPush
    \/ CfAssert
    \/ CfPrompt
    \/ CfStack
    \/ CfProtect
    \/ DockerImageExists
    \/ FormatIsort
    \/ FormatBlack
    \/ CheckMypy
    \/ CheckRuff
    \/ BuildDecision
    \/ DockerBuild
    \/ DockerRun

Spec == Init /\ [][Next]_vars

----------------------------------------------------------------------------
(* SpecVersion: validate_version and parse_tag on every string up to MaxLen *)

VChars == {"v", ".", "0", "1", "sup2"}

CliIdle ==
    /\ task = "none"
    /\ args = NoArgs
    /\ pc = "done"
    /\ image_exists = "unset"
    /\ exc = "none"
    /\ trace = <<>>
    /\ cwd = StartDir
    /\ prev_dir = StartDir
    /\ dirExists = FALSE
    /\ link = "absent"
    /\ tfState = [existing |-> {"default"}, active |-> "default"]
    /\ existing_workspaces = <<>>
    /\ registry = <<>>
    /\ version_to_push = <<>>
    /\ last_version = NoVersion
    /\ answer = <<>>

InitVersion ==
    /\ CliIdle
    /\ vin \in StringsUpTo(VChars, MaxLen)
    /\ vres = VersionIdle

\* push's assert: validate_version(version)
ValidateVersion ==
    /\ vres.stage = "input"
    /\ vres' = [vres EXCEPT !.stage = "validated",
                            !.valid = validate_version(vin)]
    /\ UNCHANGED <<vin, cliVars>>

\* push's next statement, reached only when the assert passed
ParseTag ==
    /\ vres.stage = "validated"
    /\ vres.valid
    /\ LET r == parse_tag(vin)
       IN  vres' = [vres EXCEPT !.stage = "parsed", !.ok = r.ok, !.v = r.v]
    /\ UNCHANGED <<vin, cliVars>>

NextVersion == ValidateVersion \/ ParseTag

SpecVersion == InitVersion /\ [][NextVersion]_vars

----------------------------------------------------------------------------
(* What the claims speak of *)

Events(kinds) == { i \in 1..Len(trace) : trace[i].kind \in kinds }

NoEvent(kinds) == Events(kinds) = {}

\* the commands run so far, in order
IsRunEvent(e) == e.kind = "run"
Commands == LET runs == SelectSeq(trace, IsRunEvent)
            IN  [i \in 1..Len(runs) |-> runs[i].what]

HasPrinted(msg) == \E i \in Events({"print"}) : trace[i].what = <<msg>>

\* no external process and no registry call has failed
AllSucceeded == \A i \in 1..Len(trace) : trace[i].ok

\* the command starts with the words of prefix
StartsWith(cmd, prefix) ==
    Len(cmd) >= Len(prefix) /\ SubSeq(cmd, 1, Len(prefix)) = prefix

RanSelect ==
    \E i \in Events({"run"}) :
        StartsWith(trace[i].what, <<"terraform", "workspace", "select">>)

RanWorkspaceNew ==
    \E i \in Events({"run"}) :
        StartsWith(trace[i].what, <<"terraform", "workspace", "new">>)

ListedOk ==
    \E i \in Events({"run"}) :
        trace[i] = Ran(<<"terraform", "workspace", "list">>, TRUE)

\* C1: for every workspace outside {dev, staging, production}, plan, apply and
\* destroy halt in workspace validation before any external action: no
\* command is run and the settings.tf symlink is not touched.
C1_InvalidWorkspaceHalts ==
    (task \in TfTasks /\ args.workspace \notin {"dev", "staging", "production"})
    => NoEvent({"run", "fs"})

\* the same for plan and apply alone, the two tasks that call the validation
PlanApplyInvalidWorkspaceHalts ==
    (task \in {"plan", "apply"}
     /\ args.workspace \notin {"dev", "staging", "production"})
    => /\ NoEvent({"run", "fs"})
       /\ pc = "done" => exc = "SystemExit" /\ HasPrinted("Invalid workspace")

\* the numeric (major, minor, patch) of the version strings of the model,
\* written out; a string outside the table is no valid version
NumericVersion(s) ==
    CASE s = Ver(<<"1">>, <<"0">>, <<"0">>) -> <<1, 0, 0>>
      [] s = Ver(<<"1">>, <<"1">>, <<"0">>) -> <<1, 1, 0>>
      [] s = Ver(<<"2">>, <<"0">>, <<"0">>) -> <<2, 0, 0>>
      [] s = Ver(<<"0">>, <<"9">>, <<"9">>) -> <<0, 9, 9>>
      [] s = Ver(<<"1">>, <<"0">>, <<"1">>) -> <<1, 0, 1>>
      [] s = Ver(<<"1", "0">>, <<"0">>, <<"0">>) -> <<10, 0, 0>>
      [] s = Ver(<<"0", "1">>, <<"1">>, <<"0">>) -> <<1, 1, 0>>
      [] OTHER -> <<>>

IsValidVersion(s) == NumericVersion(s) # <<>>

\* numeric tuple order on triples
TripleLess(a, b) ==
    \/ a[1] < b[1]
    \/ a[1] = b[1] /\ a[2] < b[2]
    \/ a[1] = b[1] /\ a[2] = b[2] /\ a[3] < b[3]

\* every tag in the registry
RegistryTags == { Flatten(registry)[i] : i \in 1..Len(Flatten(registry)) }

\* v is the latest published version
IsLatest(t) ==
    /\ t \in RegistryTags
    /\ \A u \in RegistryTags :
          ~TripleLess(NumericVersion(t), NumericVersion(u))

LoginTagPush == << <<"docker", "login">>, <<"docker", "tag">>, <<"docker", "push">> >>

\* C2: with L the greatest tag of the registry in numeric order, push of a
\* valid version v that is not strictly greater than L runs no login, tag or
\* push command; push of a v strictly greater than L goes on to all three.
C2_PushOnlyGreaterThanLatest ==
    (task = "push" /\ IsValidVersion(args.version))
    => \A t \in RegistryTags :
          IsLatest(t)
          => IF TripleLess(NumericVersion(t), NumericVersion(args.version))
             THEN (pc = "done" /\ AllSucceeded) => Commands = LoginTagPush
             ELSE NoEvent({"run"})

\* the same when every image carries exactly one tag
SingleTagged == \A i \in 1..Len(registry) : Len(registry[i]) = 1

PushOnlyGreaterThanLatestSingleTag ==
    SingleTagged => C2_PushOnlyGreaterThanLatest

\* C3: when the registry holds no published version (no image, or only
\* images without a tag), push of any valid version is accepted:
\* get_last_version does not fail and push goes on to login, tag and push.
C3_NoPriorVersionAccepted ==
    (task = "push" /\ IsValidVersion(args.version) /\ RegistryTags = {}
     /\ pc = "done" /\ AllSucceeded)
    => exc = "none" /\ Commands = LoginTagPush

\* the same when the registry holds no image at all
EmptyRegistryAccepted ==
    (task = "push" /\ IsValidVersion(args.version) /\ registry = <<>>
     /\ pc = "done" /\ AllSucceeded)
    => exc = "none" /\ Commands = LoginTagPush

\* C4: outside a change_directory block the working directory is the one
\* the command started in, however the block was left: normal return,
\* SystemExit, or the error of a failed command.
C4_WorkingDirectoryRestored ==
    pc \notin InBlockPcs => cwd = StartDir

\* a block left by the error of a failed command, the task over
C4_Witness ==
    /\ task \in TfTasks
    /\ pc = "done"
    /\ exc = "UnexpectedExit"
    /\ prev_dir = StartDir
    /\ cwd = StartDir
    /\ \E i \in Events({"run"}) : ~trace[i].ok

\* "v", then exactly three non-empty runs of decimal digits parted by "."
MatchesVersionShape(s) ==
    /\ s # <<>>
    /\ s[1] = "v"
    /\ \E i, j \in 2..Len(s) :
          /\ 2 < i
          /\ i + 1 < j
          /\ j < Len(s)
          /\ s[i] = "."
          /\ s[j] = "."
          /\ \A k \in 2..Len(s) : k \notin {i, j} => s[k] \in DecimalChars

\* C5: validate_version(s) is true if and only if s is "v" followed by
\* exactly three dot-separated segments, each non-empty and of decimal digits.
C5_ValidateIffShape ==
    vres.stage # "input" => (vres.valid <=> MatchesVersionShape(vin))

\* the same for the strings without a superscript digit
Ascii(s) == \A i \in 1..Len(s) : s[i] \notin SuperscriptChars

ValidateIffShapeAscii ==
    (vres.stage # "input" /\ Ascii(vin))
    => (vres.valid <=> MatchesVersionShape(vin))

\* 10 to the n
RECURSIVE Pow10(_)
Pow10(n) == IF n = 0 THEN 1 ELSE 10 * Pow10(n - 1)

\* the number a run of the digits 0 and 1 writes
RECURSIVE PlaceSum(_, _)
PlaceSum(s, i) ==
    IF i > Len(s) THEN 0
    ELSE (IF s[i] = "1" THEN Pow10(Len(s) - i) ELSE 0) + PlaceSum(s, i + 1)

\* the three segments of s are a, b, c
SegmentsAre(s, a, b, c) == s = <<"v">> \o a \o <<".">> \o b \o <<".">> \o c

\* C6: parse_tag of a string validate_version accepted does not fail and
\* gives the three numbers its segments write, leading zeros allowed.
C6_ParseOfAccepted ==
    vres.stage = "parsed"
    => /\ vres.ok
       /\ Len(vres.v) = 3
       /\ \E a, b, c \in StringsUpTo({"0", "1"}, MaxLen - 3) :
             /\ SegmentsAre(vin, a, b, c)
             /\ vres.v = <<PlaceSum(a, 1), PlaceSum(b, 1), PlaceSum(c, 1)>>

ParseOfAcceptedAscii == Ascii(vin) => C6_ParseOfAccepted

\* C7: terraform workspace select is run only for a workspace terraform
\* holds; for one it does not hold, no workspace is selected or created and
\* the call ends with SystemExit after the remediation message.
C7_SelectOnlyExisting ==
    /\ ~RanWorkspaceNew
    /\ RanSelect => args.workspace \in tfState.existing
    /\ (ListedOk /\ args.workspace \notin tfState.existing /\ pc # "csw_check")
       => /\ ~RanSelect
          /\ exc = "SystemExit"
          /\ HasPrinted("create it using terraform workspace new")

\* the workspace asked for is the active one, marked "* " in the list, and
\* was selected
C7_Witness ==
    /\ RanSelect
    /\ tfState.active = args.workspace
    /\ pc = "csw_exit"

\* C8: a subcommand ends non-zero whenever an external process it ran failed
\* or a validation failed.
C8_FailureExitsNonZero ==
    (pc = "done" /\ task # "none")
    => ((\/ ~AllSucceeded
         \/ HasPrinted("Invalid workspace")
         \/ HasPrinted("Error: must be greater than the last one")
         \/ exc = "AssertionError")
        => ExitCode # 0)

\* the answer is one y, in either case, with blanks around it at most
SaysYes(typed) ==
    \E i \in 1..Len(typed) :
        /\ typed[i] \in {"y", "Y"}
        /\ \A j \in 1..Len(typed) : j # i => typed[j] = " "

\* C9: in create_chat_table and update_chat_table an answer other than "y"
\* ends the task normally with no external command run.
C9_DeclinedRunsNothing ==
    (task \in CfTasks /\ ~NoEvent({"input"}) /\ ~SaysYes(answer))
    => /\ NoEvent({"run"})
       /\ pc = "done"
       /\ exc = "none"
       /\ ExitCode = 0

\* declined by an answer that starts with y
C9_Witness ==
    /\ task \in CfTasks
    /\ answer = <<"y", "n">>
    /\ HasPrinted("Aborting...")
    /\ pc = "done"

\* C10: push of a version validate_version rejects ends before the registry
\* is queried and before any command; the cloudformation tasks with an env
\* outside {dev, staging, production} end before the prompt and any command.
C10_InvalidInputNoAction ==
    /\ (task = "push" /\ ~validate_version(args.version))
       => /\ NoEvent({"ecr", "run", "fs", "input"})
          /\ pc = "done" => exc = "AssertionError"
    /\ (task \in CfTasks /\ args.env \notin {"dev", "staging", "production"})
       => /\ NoEvent({"ecr", "run", "fs", "input"})
          /\ pc = "done" => exc = "AssertionError"

\* push of "1.0.0", which lacks the prefix, over with an AssertionError
C10_Witness ==
    /\ task = "push"
    /\ args.version = <<"1", ".", "0", ".", "0">>
    /\ pc = "done"
    /\ exc = "AssertionError"
    /\ trace = <<>>

\* the places in trace of the reads / writes of image_exists
CtxOps(op) == { i \in Events({"ctx"}) : trace[i].what[1] = op }

\* the reads made by the body of chat or server
HandlerReads == { i \in CtxOps("read") : trace[i].what[3] \in RunTasks }

\* the places in trace of the runs of the given programs
RunsOf(programs) == { i \in Events({"run"}) : trace[i].what[1] \in programs }

DockerRuns(sub) ==
    { i \in RunsOf({"docker"}) : trace[i].what[2] = sub }

\* C11: in a chat or server invocation the pre-hook docker_image_exists
\* writes image_exists exactly once and nothing else writes it; the body
\* reads it only after that write, never while it is unset.
C11_FlagWrittenOnceBeforeRead ==
    task \in RunTasks
    => /\ Cardinality(CtxOps("write")) = (IF pc = "pre_images" THEN 0 ELSE 1)
       /\ \A w \in CtxOps("write") : trace[w].what[3] = "docker_image_exists"
       /\ \A r \in HandlerReads : \E w \in CtxOps("write") : w < r
       /\ image_exists = "unset" <=> CtxOps("write") = {}
       /\ HandlerReads # {} => exc # "AttributeError"

\* chat has read the flag the pre-hook set to false, and is over
C11_Witness ==
    /\ task = "chat"
    /\ image_exists = "false"
    /\ HandlerReads # {}
    /\ pc = "done"
    /\ exc = "none"

\* C12: chat or server with no_format runs no formatter (isort, black) at
\* any point, the build it triggers included; with no_check, no checker
\* (mypy, ruff).
C12_SkipFlagsSkipEverywhere ==
    task \in RunTasks
    => /\ args.no_format => RunsOf({"isort", "black"}) = {}
       /\ args.no_check => RunsOf({"mypy", "ruff"}) = {}

\* the same as long as no build is triggered
SkipFlagsSkipOutsideBuild ==
    (task \in RunTasks /\ image_exists = "true" /\ ~args.force_build)
    => /\ args.no_format => RunsOf({"isort", "black"}) = {}
       /\ args.no_check => RunsOf({"mypy", "ruff"}) = {}

\* the image was not found by the pre-hook, or force_build is set
BuildCalledFor == image_exists = "false" \/ args.force_build

=============================================================================
